---- MODULE Spec2Model ----
(***************************************************************************)
(* Model of the modelex paywall adapters:                                  *)
(*   adapters/decorators.py          modelex_paywall (the request gate)    *)
(*   adapters/payment.py             verify_jwt, verify_onchain            *)
(*   adapters/phone_verification.py  the phone OTP stores                  *)
(*   adapters/crawler_identification.py  CrawlerIdentifier                 *)
(* Helpers the test-suite imports from adapters.decorators but that the    *)
(* module does not define (_check_rate_limit, ...) are modelled from the   *)
(* written specification and are marked as such where they are defined.    *)
(***************************************************************************)
EXTENDS Integers, Sequences, FiniteSets, TLC

VARIABLES
    now,                        \* time.time(), in seconds
    phone_verification_store,   \* phone_verification.py:6   phone -> (code, timestamp)
    verified_phones,            \* phone_verification.py:7   phone -> verification timestamp
    req,                        \* the last gated request: headers, endpoint configuration, collaborators' answers
    res,                        \* what the wrapper did with it
    trace,                      \* the completed requests of a flow, oldest first
    _rate_limit_tracker,        \* identity -> sequence of admitted timestamps
    admitted,                   \* identity -> every timestamp ever admitted (history)
    rateCall,                   \* the last _check_rate_limit call and its result
    _usage_tracking,            \* identity -> endpoint -> accumulated amount
    idCalls,                    \* the last _extract_user_id calls and their results
    _crawler_cache,             \* crawler_identification.py:12  crawler id -> record
    _ip_to_crawler,             \* crawler_identification.py:13  ip -> crawler id
    crawlCall,                  \* the last CrawlerIdentifier call and its result
    crawlLog,                   \* the ids handed out per ip, and each record's creation and calls (history)
    phoneCall,                  \* the last phone_verification call and its result
    lastVerified,               \* phone -> time of its latest successful verify_phone_code (history)
    issued,                     \* phone -> the code last issued for it, when, and the codes issued before (history)
    tasks                       \* concurrently running phone_verification calls, each at its position

\* the state of the ledger, the identity extractor, the crawler identifier and
\* the phone calls observed
ext == <<_usage_tracking, idCalls, _crawler_cache, _ip_to_crawler, crawlCall, crawlLog,
         phoneCall, lastVerified, issued, tasks>>

\* the state of the gate, the flow and the rate limiter
gateVars == <<now, phone_verification_store, verified_phones, req, res, trace,
              _rate_limit_tracker, admitted, rateCall>>

vars == <<now, phone_verification_store, verified_phones, req, res, trace,
          _rate_limit_tracker, admitted, rateCall, ext>>

----------------------------------------------------------------------------
\* Bounds of the model

MaxTime == 11
MaxLog == 2
MaxRateTime == 62
MaxAdmits == 3
MaxIdCalls == 2
MaxCrawlCalls == 3
MaxCrawlTime == 3601
MaxIpCalls == 1
MaxPhoneTime == 21
MaxConcTime == 11
MaxConcCalls == 3

\* Program constants
PhoneTtl == 10
SigLimit == 20
RateWindow == 60
CacheTtl == 300
WalletPrefixLen == 8
MsPerSecond == 1000
SecondsPerHour == 3600

NoneVal == "None"
BearerPrefix == "Bearer "

Phones == {"p1", "p2"}
Codes == {"c1"}
Wallets == {"w1"}
Users == {"u1", "u2"}
Prices == {1, 2}

Min(a, b) == IF a <= b THEN a ELSE b

----------------------------------------------------------------------------
\* Python values

\* A header holding a string of chunks; absent is present = FALSE.
NoHeader == [present |-> FALSE, value |-> <<>>]
Header(s) == [present |-> TRUE, value |-> s]

\* bool(x) of an optional string: None and "" are falsy.
Truthy(h) == h.present /\ h.value # <<>>

\* str.startswith("Bearer ")
startswith(s, prefix) == Len(s) > 0 /\ s[1] = prefix

\* str.replace("Bearer ", ""): every occurrence is removed.
replace(s, old) == SelectSeq(s, LAMBDA c : c # old)

----------------------------------------------------------------------------
\* payment.py: verify_jwt

\* What jwt.decode(token, SECRET_KEY) gives: a payload, or an exception.
\* amount.kind: "absent" (no amount key), "nan" (float() raises), "num".
DecodeError == [ok |-> FALSE, amount |-> [kind |-> "absent", n |-> 0], phone_number |-> NoneVal]
Payload(k, n, p) == [ok |-> TRUE, amount |-> [kind |-> k, n |-> n], phone_number |-> p]

verify_jwt(decoded, min_amount, phone_number) ==
    IF ~decoded.ok THEN FALSE                          \* jwt.decode raised
    ELSE IF decoded.amount.kind = "nan" THEN FALSE     \* float() raised
    ELSE LET amount == IF decoded.amount.kind = "absent" THEN 0 ELSE decoded.amount.n
         IN  IF amount >= min_amount
             THEN IF phone_number # NoneVal /\ decoded.phone_number # phone_number
                  THEN FALSE
                  ELSE TRUE
             ELSE FALSE

----------------------------------------------------------------------------
\* payment.py: verify_onchain

\* One get_transaction answer. kind: "none" (no value, or not a dict),
\* "error" (the call or the parsing raises), "tx" (accounts with their
\* balances before and after, in whole SOL).
NoTx == [kind |-> "none", accts |-> <<>>, pre |-> <<>>, post |-> <<>>]
TxError == [kind |-> "error", accts |-> <<>>, pre |-> <<>>, post |-> <<>>]
Tx(a, p, q) == [kind |-> "tx", accts |-> a, pre |-> p, post |-> q]

\* for pre, post in zip(pre_balances, post_balances): diff >= min_amount
AnyDecrease(tx, min_amount) ==
    \E i \in 1..Min(Len(tx.pre), Len(tx.post)) : tx.pre[i] - tx.post[i] >= min_amount

RECURSIVE ScanSignatures(_, _, _)
ScanSignatures(sigs, i, min_amount) ==
    IF i > Len(sigs) THEN FALSE
    ELSE LET tx == sigs[i]
         IN  IF tx.kind = "error" THEN FALSE           \* except Exception: return False
             ELSE IF tx.kind = "none" THEN ScanSignatures(sigs, i + 1, min_amount)
             ELSE IF tx.pre = <<>> \/ tx.post = <<>> THEN ScanSignatures(sigs, i + 1, min_amount)
             ELSE IF AnyDecrease(tx, min_amount) THEN TRUE
             ELSE ScanSignatures(sigs, i + 1, min_amount)

\* The chain as the collaborators answer: client ("ok"/"raise": the
\* SolanaClient constructor), pubkey ("ok"/"raise": PublicKey(address)),
\* rpc ("ok"/"raise": get_signatures_for_address), history (newest first).
Chain(c, k, r, h) == [client |-> c, pubkey |-> k, rpc |-> r, history |-> h]

\* exc: an exception leaves the function; ret: the value returned otherwise.
verify_onchain(chain, min_amount) ==
    IF chain.client = "raise" THEN [exc |-> TRUE, ret |-> FALSE]   \* line 38, before the try
    ELSE IF chain.pubkey = "raise" \/ chain.rpc = "raise" THEN [exc |-> FALSE, ret |-> FALSE]
    ELSE LET sigs == SubSeq(chain.history, 1, Min(Len(chain.history), SigLimit))
         IN  IF sigs = <<>> THEN [exc |-> FALSE, ret |-> FALSE]
             ELSE [exc |-> FALSE, ret |-> ScanSignatures(sigs, 1, min_amount)]

----------------------------------------------------------------------------
\* phone_verification.py

\* is_verified with the age test dropped: a verification never expires.
is_verified_forever(phone_number, vp, t) ==
    phone_number \in DOMAIN vp

\* is_verified of check_phone_verified
is_verified(phone_number, vp, t) ==
    phone_number \in DOMAIN vp /\ (t - vp[phone_number]) <= PhoneTtl

\* purge_expired that also removes a verification exactly 10 seconds old
purge_at_ttl(vp, t) ==
    [num \in {n \in DOMAIN vp : ~((t - vp[n]) >= PhoneTtl)} |-> vp[num]]

\* purge_expired that removes every verification
purge_all(vp, t) == <<>>

\* verified_phones after "Remove expired verifications"
purge_expired(vp, t) ==
    [num \in {n \in DOMAIN vp : ~((t - vp[n]) > PhoneTtl)} |-> vp[num]]

----------------------------------------------------------------------------
\* decorators.py: modelex_paywall

\* The endpoint configuration. rate_limit (0: none) and cache_ttl are what the
\* test-suite configures; the decorator of decorators.py:12 takes neither and
\* its wrapper reads neither.
Config(price, currency, phone_required, rate_limit, cache_ttl) ==
    [price |-> price, currency |-> currency, phone_required |-> phone_required,
     rate_limit |-> rate_limit, cache_ttl |-> cache_ttl]

\* request.headers
Headers(auth, wallet, phone, uid) ==
    [Authorization |-> auth, wallet |-> wallet, phone |-> phone, uid |-> uid]

\* What the collaborators answer during one request.
World(decode, chain) == [decode |-> decode, chain |-> chain]

HandlerResult == [message |-> "success"]

\* PaymentRequiredResponse that answers the decorator's default currency
PaymentRequiredDefaultCurrency(cfg) ==
    [status_code |-> 402, error |-> "Payment required", price |-> cfg.price,
     currency |-> "TRUSD", payment_endpoint |-> "https://pay.modelex.ai/pay",
     phone_required |-> cfg.phone_required]

PaymentRequiredResponse(cfg) ==
    [status_code |-> 402, error |-> "Payment required", price |-> cfg.price,
     currency |-> cfg.currency, payment_endpoint |-> "https://pay.modelex.ai/pay",
     phone_required |-> cfg.phone_required]

PhoneVerificationResponse ==
    [status_code |-> 402, error |-> "Phone verification required",
     verify_url |-> "https://modelex.ai/verify"]

\* lines 17-21: the token handed to verify_jwt
extract_token(auth) ==
    IF Truthy(auth) /\ startswith(auth.value, BearerPrefix)
    THEN Header(replace(auth.value, BearerPrefix))
    ELSE auth

\* payment with "elif wallet": the wallet is looked at only when no token came.
payment_elif(h, cfg, w) ==
    LET token == extract_token(h.Authorization)
        jwt_called == Truthy(token)
        paid1 == IF jwt_called THEN verify_jwt(w.decode, cfg.price, NoneVal) ELSE FALSE
        chain_called == ~jwt_called /\ h.wallet # NoneVal
        chain == verify_onchain(w.chain, cfg.price)
    IN  [token |-> token, jwt_called |-> jwt_called, chain_called |-> chain_called,
         raised |-> chain_called /\ chain.exc,
         paid |-> IF chain_called THEN ~chain.exc /\ chain.ret ELSE paid1]

\* lines 23-27: paid, and which verifier ran. raised: verify_onchain let an
\* exception out, which nothing in the wrapper catches.
payment(h, cfg, w) ==
    LET token == extract_token(h.Authorization)
        jwt_called == Truthy(token)
        paid1 == IF jwt_called THEN verify_jwt(w.decode, cfg.price, NoneVal) ELSE FALSE
        chain_called == ~paid1 /\ h.wallet # NoneVal
        chain == verify_onchain(w.chain, cfg.price)
    IN  [token |-> token, jwt_called |-> jwt_called, chain_called |-> chain_called,
         raised |-> chain_called /\ chain.exc,
         paid |-> IF chain_called THEN ~chain.exc /\ chain.ret ELSE paid1]

\* decide with the phone check moved in front of the payment check.
decide_phone_first(pay, cfg, phone_ok) ==
    IF cfg.phone_required /\ ~phone_ok THEN "PHONE_REQUIRED"
    ELSE IF pay.raised THEN "EXCEPTION"
    ELSE IF ~pay.paid THEN "PAYMENT_REQUIRED"
    ELSE "ALLOWED"

\* lines 29-51: which way the wrapper leaves.
decide(pay, cfg, phone_ok) ==
    IF pay.raised THEN "EXCEPTION"
    ELSE IF ~pay.paid THEN "PAYMENT_REQUIRED"
    ELSE IF cfg.phone_required /\ ~phone_ok THEN "PHONE_REQUIRED"
    ELSE "ALLOWED"

\* lines 15-51: the wrapper, given the shared verified_phones (vp) and the time.
wrapper(h, cfg, w, vp, t) ==
    LET pay == payment(h, cfg, w)
        phone_checked == ~pay.raised /\ pay.paid /\ cfg.phone_required
        outcome == decide(pay, cfg, is_verified(h.phone, vp, t))
    IN  [outcome |-> outcome,
         handler_invoked |-> (outcome = "ALLOWED"),
         paid |-> pay.paid,
         jwt_called |-> pay.jwt_called,
         jwt_token |-> pay.token,
         chain_called |-> pay.chain_called,
         phone_checked |-> phone_checked,
         response |-> IF outcome = "PAYMENT_REQUIRED" THEN PaymentRequiredResponse(cfg)
                      ELSE IF outcome = "PHONE_REQUIRED" THEN PhoneVerificationResponse
                      ELSE IF outcome = "ALLOWED" THEN HandlerResult
                      ELSE [exception |-> "propagated"]]

\* One gated request, served to the end.
Request(h, cfg, w) ==
    LET r == wrapper(h, cfg, w, verified_phones, now)
    IN  /\ req' = [headers |-> h, cfg |-> cfg, world |-> w, at |-> now, phones |-> verified_phones]
        /\ res' = r
        /\ verified_phones' = IF r.phone_checked THEN purge_expired(verified_phones, now)
                              ELSE verified_phones
        /\ UNCHANGED <<now, phone_verification_store>>

----------------------------------------------------------------------------
\* phone_verification.py: the operations

\* request_phone_verification that keeps the pair a phone already has.
request_keeps_first(phone_number, code) ==
    /\ phone_verification_store' =
           phone_verification_store @@ (phone_number :> [code |-> code, timestamp |-> now])
    /\ UNCHANGED <<now, verified_phones>>

\* lines 9-15
request_phone_verification(phone_number, code) ==
    /\ phone_verification_store' =
           (phone_number :> [code |-> code, timestamp |-> now]) @@ phone_verification_store
    /\ UNCHANGED <<now, verified_phones>>

\* code_accepted without the age test: an issued code never expires.
code_accepted_forever(store, phone_number, code, t) ==
    /\ phone_number \in DOMAIN store
    /\ code = store[phone_number].code

\* lines 19-24: what verify_phone_code returns
code_accepted(store, phone_number, code, t) ==
    /\ phone_number \in DOMAIN store
    /\ code = store[phone_number].code
    /\ (t - store[phone_number].timestamp) <= PhoneTtl

\* verify_phone_code that consumes the code it accepts.
verify_consumes_code(phone_number, code) ==
    /\ verified_phones' =
           IF code_accepted(phone_verification_store, phone_number, code, now)
           THEN (phone_number :> now) @@ verified_phones
           ELSE verified_phones
    /\ phone_verification_store' =
           IF code_accepted(phone_verification_store, phone_number, code, now)
           THEN [q \in DOMAIN phone_verification_store \ {phone_number} |->
                     phone_verification_store[q]]
           ELSE phone_verification_store
    /\ UNCHANGED now

\* lines 17-27
verify_phone_code(phone_number, code) ==
    /\ verified_phones' =
           IF code_accepted(phone_verification_store, phone_number, code, now)
           THEN (phone_number :> now) @@ verified_phones
           ELSE verified_phones
    /\ UNCHANGED <<now, phone_verification_store>>

\* lines 29-40, called on a request with that X-Phone-Number (NoneVal: none)
check_phone_verified(phone_number) ==
    /\ verified_phones' = purge_expired(verified_phones, now)
    /\ UNCHANGED <<now, phone_verification_store>>

\* time.time() moves on
Tick(d, horizon) ==
    /\ now + d <= horizon
    /\ now' = now + d

----------------------------------------------------------------------------
\* The gate, one request at a time

Amounts == {1, 2}
Decodes ==
    {DecodeError}
    \cup {Payload(k, 0, p) : k \in {"absent", "nan"}, p \in {NoneVal, "p1"}}
    \cup {Payload("num", n, p) : n \in Amounts, p \in {NoneVal, "p1"}}

\* Authorization headers with what jwt.decode makes of the token in them
\* (an empty token never decodes).
AuthChoices ==
    {<<NoHeader, DecodeError>>, <<Header(<<BearerPrefix>>), DecodeError>>}
    \cup {<<Header(<<"a">>), d>> : d \in Decodes}
    \cup {<<Header(<<BearerPrefix, "a">>), d>> : d \in Decodes}

NoChain == Chain("ok", "ok", "ok", <<>>)
GateChains ==
    { Chain("raise", "ok", "ok", <<>>),
      Chain("ok", "raise", "ok", <<>>),
      Chain("ok", "ok", "raise", <<>>),
      NoChain,
      Chain("ok", "ok", "ok", <<Tx(<<"wallet", "payee">>, <<2, 0>>, <<0, 2>>)>>),
      Chain("ok", "ok", "ok", <<Tx(<<"other", "wallet">>, <<1, 0>>, <<0, 1>>)>>),
      Chain("ok", "ok", "ok", <<NoTx, Tx(<<"wallet", "payee">>, <<1, 0>>, <<0, 1>>)>>),
      Chain("ok", "ok", "ok", <<TxError, Tx(<<"wallet", "payee">>, <<2, 0>>, <<0, 2>>)>>) }

WalletChoices == {<<NoneVal, NoChain>>} \cup {<<a, c>> : a \in Wallets, c \in GateChains}

NoRequest ==
    [headers |-> Headers(NoHeader, NoneVal, NoneVal, NoneVal),
     cfg |-> Config(1, "TRUSD", FALSE, 0, CacheTtl),
     world |-> World(DecodeError, NoChain),
     at |-> 0, phones |-> <<>>]

NoResult ==
    [outcome |-> "NONE", handler_invoked |-> FALSE, paid |-> FALSE, jwt_called |-> FALSE,
     jwt_token |-> NoHeader, chain_called |-> FALSE, phone_checked |-> FALSE,
     response |-> [exception |-> "none"]]

\* No request is being answered: the last response has been delivered.
Idle == res.outcome = "NONE"

GateRequest ==
    /\ Idle
    /\ \E a \in AuthChoices, wc \in WalletChoices, ph \in Phones \cup {NoneVal},
          price \in Prices, phone_required \in BOOLEAN :
           Request(Headers(a[1], wc[1], ph, NoneVal),
                   Config(price, "TRUSD", phone_required, 0, CacheTtl),
                   World(a[2], wc[2]))
    /\ UNCHANGED <<trace, _rate_limit_tracker, admitted, rateCall, ext>>

\* The response (or the exception) has reached the caller.
GateReturn ==
    /\ ~Idle
    /\ req' = NoRequest
    /\ res' = NoResult
    /\ UNCHANGED <<now, phone_verification_store, verified_phones, trace,
                   _rate_limit_tracker, admitted, rateCall, ext>>

GateRequestPhone ==
    /\ Idle
    /\ \E p \in Phones, c \in Codes : request_phone_verification(p, c)
    /\ UNCHANGED <<req, res, trace, _rate_limit_tracker, admitted, rateCall, ext>>

GateVerifyPhone ==
    /\ Idle
    /\ \E p \in Phones, c \in Codes \cup {"bad"} : verify_phone_code(p, c)
    /\ UNCHANGED <<req, res, trace, _rate_limit_tracker, admitted, rateCall, ext>>

GateTick ==
    /\ Idle
    /\ \E d \in {PhoneTtl, PhoneTtl + 1} : Tick(d, MaxTime)
    /\ UNCHANGED <<phone_verification_store, verified_phones, req, res, trace,
                   _rate_limit_tracker, admitted, rateCall, ext>>

NoRateCall ==
    [user_id |-> NoneVal, max_requests |-> 0, at |-> 0, before |-> <<>>,
     history |-> <<>>, result |-> FALSE]

\* the threads that run phone_verification calls, and one that runs none
Tasks == {1, 2}
IdleTask ==
    [pc |-> "idle", op |-> "none", phone |-> NoneVal, code |-> NoneVal, t |-> 0,
     is_verified |-> FALSE, used |-> 0, expired |-> {}, exc |-> "none"]

Init ==
    /\ now = 0
    /\ phone_verification_store = <<>>
    /\ verified_phones = <<>>
    /\ req = NoRequest
    /\ res = NoResult
    /\ trace = <<>>
    /\ _rate_limit_tracker = <<>>
    /\ admitted = <<>>
    /\ rateCall = NoRateCall
    /\ _usage_tracking = <<>>
    /\ idCalls = <<>>
    /\ _crawler_cache = <<>>
    /\ _ip_to_crawler = <<>>
    /\ crawlCall = [op |-> "none"]
    /\ crawlLog = [ids |-> <<>>, made |-> <<>>, n |-> 0]
    /\ phoneCall = [op |-> "none"]
    /\ lastVerified = <<>>
    /\ issued = <<>>
    /\ tasks = [k \in Tasks |-> IdleTask]

Next == GateRequest \/ GateReturn \/ GateRequestPhone \/ GateVerifyPhone \/ GateTick

Spec == Init /\ [][Next]_vars

----------------------------------------------------------------------------
\* What the claims speak of, read off the recorded request

Served == res.outcome # "NONE"

\* The token the request carries, and whether verify_jwt accepts it for the price.
TokenPresent == Truthy(extract_token(req.headers.Authorization))
JwtVerifies == TokenPresent /\ verify_jwt(req.world.decode, req.cfg.price, NoneVal)

\* The wallet the request carries, and whether verify_onchain accepts it for the price.
WalletPresent == req.headers.wallet # NoneVal
ChainVerifies ==
    /\ WalletPresent
    /\ ~verify_onchain(req.world.chain, req.cfg.price).exc
    /\ verify_onchain(req.world.chain, req.cfg.price).ret

PaymentVerifies == JwtVerifies \/ ChainVerifies

\* The request's phone was verified at most PhoneTtl seconds before the request.
PhoneCurrentlyVerified ==
    /\ req.headers.phone \in DOMAIN req.phones
    /\ req.at - req.phones[req.headers.phone] <= PhoneTtl

Rejection == {"PAYMENT_REQUIRED", "PHONE_REQUIRED", "RATE_LIMITED"}

\* A collaborator failed while the payment was being verified.
CollaboratorFailed ==
    \/ TokenPresent /\ (~req.world.decode.ok \/ req.world.decode.amount.kind = "nan")
    \/ /\ WalletPresent
       /\ ~JwtVerifies
       /\ \/ req.world.chain.client = "raise"
          \/ req.world.chain.pubkey = "raise"
          \/ req.world.chain.rpc = "raise"

\* A transaction that moves at least min_amount from the wallet to the payee.
PaysPayee(tx, min_amount) ==
    /\ tx.kind = "tx"
    /\ \E i \in 1..Min(Len(tx.pre), Len(tx.post)) :
          tx.accts[i] = "wallet" /\ tx.pre[i] - tx.post[i] >= min_amount
    /\ \E j \in 1..Min(Len(tx.pre), Len(tx.post)) :
          tx.accts[j] = "payee" /\ tx.post[j] - tx.pre[j] >= min_amount

----------------------------------------------------------------------------
\* C1: the handler is invoked iff the payment verifies (token or wallet, for
\* the price) and, on a phone-required endpoint, the phone is verified; every
\* other request gets a rejection response, and a request whose credentials do
\* not verify gets the status-402 PAYMENT_REQUIRED one.
C1_HandlerIffPaidAndPhone ==
    Served =>
        /\ res.handler_invoked <=>
               (PaymentVerifies /\ (req.cfg.phone_required =>
                                      is_verified(req.headers.phone, req.phones, req.at)))
        /\ ~res.handler_invoked => res.outcome \in Rejection
        /\ ~PaymentVerifies =>
               /\ res.outcome = "PAYMENT_REQUIRED"
               /\ res.response.status_code = 402

C3_PaidButPhoneUnverified ==
    (Served /\ req.cfg.phone_required /\ PaymentVerifies /\ ~PhoneCurrentlyVerified)
    => /\ res.outcome = "PHONE_REQUIRED"
       /\ res.response.status_code = 402
       /\ res.response.error = "Phone verification required"
       /\ ~res.handler_invoked

\* a paid request whose phone was verified, but too long ago
C3_Witness ==
    /\ Served
    /\ req.cfg.phone_required
    /\ PaymentVerifies
    /\ req.headers.phone \in DOMAIN req.phones
    /\ ~PhoneCurrentlyVerified
    /\ res.outcome = "PHONE_REQUIRED"

\* C4: a collaborator's failure during payment verification is never raised:
\* no exception leaves the wrapper, and the request that no credential
\* verifies is answered PAYMENT_REQUIRED.
C4_FailClosedNeverRaised ==
    Served =>
        /\ res.outcome # "EXCEPTION"
        /\ (CollaboratorFailed /\ ~PaymentVerifies) => res.outcome = "PAYMENT_REQUIRED"

\* C5: a request is paid iff its token verifies or its wallet verifies: a
\* failing token does not keep a verifying wallet from being accepted, nor a
\* missing wallet a verifying token.
C5_EitherCredentialSuffices ==
    Served =>
        /\ res.paid <=> PaymentVerifies
        /\ res.outcome \in {"ALLOWED", "PHONE_REQUIRED"} <=> PaymentVerifies
        /\ res.jwt_called <=> TokenPresent

\* a token that fails beside a wallet that verifies
C5_Witness ==
    /\ Served
    /\ TokenPresent
    /\ ~JwtVerifies
    /\ ChainVerifies
    /\ res.paid
    /\ res.handler_invoked

\* C6: a request whose X-Phone-Number differs from the phone_number claim
\* bound in its token is not accepted as paid by that token.
C6_TokenBoundToRequestPhone ==
    (Served /\ res.jwt_called /\ req.world.decode.ok
        /\ req.world.decode.phone_number # NoneVal
        /\ req.headers.phone # NoneVal
        /\ req.headers.phone # req.world.decode.phone_number)
    => ~(res.paid /\ ~res.chain_called)

\* C7: a wallet is accepted only on a transaction of its history that moves
\* at least the price from the wallet to the expected payee.
C7_DecreaseAttributableToPayee ==
    (Served /\ res.chain_called /\ res.paid)
    => \E i \in 1..Len(req.world.chain.history) :
           PaysPayee(req.world.chain.history[i], req.cfg.price)

----------------------------------------------------------------------------
\* A flow of requests of several callers to one endpoint, as the test-suite's
\* integration tests drive it

ValidToken == <<Header(<<BearerPrefix, "a">>), Payload("num", 1, NoneVal)>>

FlowRequest ==
    /\ Len(trace) < MaxLog
    /\ \E uid \in Users, a \in {<<NoHeader, DecodeError>>, ValidToken}, rate_limit \in {0, 1, 2} :
           Request(Headers(a[1], NoneVal, NoneVal, uid),
                   Config(1, "TRUSD", FALSE, rate_limit, CacheTtl),
                   World(a[2], NoChain))
    /\ trace' = Append(trace, [req |-> req', res |-> res'])
    /\ UNCHANGED <<_rate_limit_tracker, admitted, rateCall, ext>>

FlowTick ==
    /\ \E d \in {RateWindow + 1, CacheTtl} : Tick(d, CacheTtl + RateWindow + 1)
    /\ UNCHANGED <<phone_verification_store, verified_phones, req, res, trace,
                   _rate_limit_tracker, admitted, rateCall, ext>>

NextFlow == FlowRequest \/ FlowTick

SpecFlow == Init /\ [][NextFlow]_vars

\* Two requests of the flow, one right after the other, of the same caller to
\* the same endpoint.
SameCaller(a, b) ==
    /\ a.req.headers.uid = b.req.headers.uid
    /\ a.req.headers.Authorization = b.req.headers.Authorization
    /\ a.req.cfg = b.req.cfg

\* C8: of two consecutive allowed requests of one caller within the cache
\* ttl, the second is answered from the cache: verify_jwt is not invoked again.
C8_VerifiedOncePerTtl ==
    \A i \in 1..(Len(trace) - 1) :
        LET a == trace[i]
            b == trace[i + 1]
        IN  (/\ SameCaller(a, b)
             /\ a.res.outcome = "ALLOWED"
             /\ b.res.outcome = "ALLOWED"
             /\ b.req.at - a.req.at < a.req.cfg.cache_ttl)
            => ~b.res.jwt_called

\* C10: with rate_limit = 1, of two consecutive requests of one identity
\* without a valid payment inside one window, the first is answered
\* PAYMENT_REQUIRED and the second RATE_LIMITED.
C10_RateLimitedBeforePayment ==
    \A i \in 1..(Len(trace) - 1) :
        LET a == trace[i]
            b == trace[i + 1]
        IN  (/\ SameCaller(a, b)
             /\ \A j \in 1..(i - 1) : trace[j].req.headers.uid # a.req.headers.uid
             /\ a.req.cfg.rate_limit = 1
             /\ ~verify_jwt(a.req.world.decode, a.req.cfg.price, NoneVal)
             /\ b.req.at - a.req.at < RateWindow)
            => /\ a.res.outcome = "PAYMENT_REQUIRED"
               /\ b.res.outcome = "RATE_LIMITED"

\* The name the wrapped handler is accounted under (func.__name__).
Endpoint == "test_endpoint"

\* _usage_tracking[user_id][endpoint] of a defaultdict of defaultdict(float)
LedgerOf(ledger, user_id, endpoint) ==
    IF user_id \in DOMAIN ledger /\ endpoint \in DOMAIN ledger[user_id]
    THEN ledger[user_id][endpoint]
    ELSE 0

\* the prices of the first n requests of the flow that identity user_id was
\* allowed, added up
RECURSIVE PriceOfAllowed(_, _)
PriceOfAllowed(user_id, n) ==
    IF n = 0 THEN 0
    ELSE PriceOfAllowed(user_id, n - 1)
         + (IF /\ trace[n].req.headers.uid = user_id
               /\ trace[n].res.outcome = "ALLOWED"
            THEN trace[n].req.cfg.price
            ELSE 0)

\* C11: the usage ledger entry of an identity for the endpoint is the price
\* times the number of requests of that identity the gate allowed.
C11_LedgerIsPriceTimesAllowed ==
    \A u \in Users :
        LedgerOf(_usage_tracking, u, Endpoint) = PriceOfAllowed(u, Len(trace))

----------------------------------------------------------------------------
\* The rate limiter (_check_rate_limit of the test-suite; its code is not in
\* adapters/decorators.py, the written specification's section 4.4 is modelled)

\* prune_window that drops nothing
prune_nothing(seq, t) == seq

\* the entries not older than t - RateWindow
prune_window(seq, t) == SelectSeq(seq, LAMBDA x : ~(x < t - RateWindow))

\* _rate_limit_tracker[user_id] of a defaultdict(list)
TrackerOf(tracker, user_id) == IF user_id \in DOMAIN tracker THEN tracker[user_id] ELSE <<>>

_check_rate_limit(user_id, max_requests) ==
    LET before == TrackerOf(_rate_limit_tracker, user_id)
        pruned == prune_window(before, now)
        ok == Len(pruned) < max_requests
    IN  /\ _rate_limit_tracker' =
               (user_id :> IF ok THEN Append(pruned, now) ELSE pruned) @@ _rate_limit_tracker
        /\ rateCall' = [user_id |-> user_id, max_requests |-> max_requests, at |-> now,
                        before |-> before, history |-> TrackerOf(admitted, user_id),
                        result |-> ok]
        /\ admitted' = IF ok THEN (user_id :> Append(TrackerOf(admitted, user_id), now)) @@ admitted
                       ELSE admitted

RateCheck ==
    /\ \E u \in Users, m \in {1, 2} :
           /\ Len(TrackerOf(admitted, u)) < MaxAdmits
           /\ _check_rate_limit(u, m)
    /\ UNCHANGED <<now, phone_verification_store, verified_phones, req, res, trace, ext>>

RateTick ==
    /\ \E d \in {RateWindow \div 2, RateWindow \div 2 + 1} : Tick(d, MaxRateTime)
    /\ UNCHANGED <<phone_verification_store, verified_phones, req, res, trace,
                   _rate_limit_tracker, admitted, rateCall, ext>>

NextRate == RateCheck \/ RateTick

SpecRate == Init /\ [][NextRate]_vars

RateMade == rateCall.user_id # NoneVal

\* the timestamps of seq inside the window that ends at t
WithinWindow(seq, t) == SelectSeq(seq, LAMBDA x : t - x <= RateWindow)

\* C9: a call is admitted iff fewer than max_requests requests of the
\* identity were admitted in the 60 seconds up to it; the stored sequence is
\* then the timestamps still in the window followed by the call's own, and
\* after a rejected call it is the timestamps still in the window, with
\* nothing added.
C9_SlidingWindow ==
    RateMade =>
        LET in_window == WithinWindow(rateCall.history, rateCall.at)
            stored == _rate_limit_tracker[rateCall.user_id]
        IN  /\ rateCall.result <=> Len(in_window) < rateCall.max_requests
            /\ rateCall.result =>
                   stored = Append(WithinWindow(rateCall.before, rateCall.at), rateCall.at)
            /\ ~rateCall.result => stored = WithinWindow(rateCall.before, rateCall.at)
            /\ \A i \in 1..Len(stored) : rateCall.at - stored[i] <= RateWindow

\* a request admitted because the timestamps that filled the window aged out
C9_Witness ==
    /\ RateMade
    /\ rateCall.result
    /\ Len(rateCall.before) >= rateCall.max_requests
    /\ WithinWindow(rateCall.before, rateCall.at) # rateCall.before

----------------------------------------------------------------------------
\* The identity extractor (_extract_user_id and _extract_auth_token of the
\* test-suite; their code is not in adapters/decorators.py, the written
\* specification's section 4.1 is modelled)

\* request.headers as the extractor reads them: each header absent or a string
IdHeaders(uid, auth, wallet) == [uid |-> uid, Authorization |-> auth, wallet |-> wallet]

\* the token of an Authorization header, without its "Bearer " prefix
_extract_auth_token(auth) ==
    IF auth.present /\ startswith(auth.value, BearerPrefix)
    THEN Header(Tail(auth.value))
    ELSE auth

\* A fixed-length hash of a token: several tokens share a digest.
HashNames == <<"h0", "h1", "h2">>

ChunkCode(c) == CASE c = "a" -> 1 [] c = "b" -> 2 [] OTHER -> 0

RECURSIVE Digest(_)
Digest(s) == IF s = <<>> THEN 0 ELSE (ChunkCode(Head(s)) + 2 * Digest(Tail(s))) % Len(HashNames)

token_hash(token) == HashNames[Digest(token) + 1]

\* address[:8]
address_prefix(address) == SubSeq(address, 1, Min(Len(address), WalletPrefixLen))

\* _extract_user_id that looks at the token before the explicit header
_extract_user_id_token_first(h) ==
    LET token == _extract_auth_token(h.Authorization)
    IN  IF token.present THEN Header(<<"user_", token_hash(token.value)>>)
        ELSE IF h.uid.present THEN h.uid
        ELSE IF h.wallet.present THEN Header(<<"wallet_">> \o address_prefix(h.wallet.value))
        ELSE NoHeader

\* the identity of a request, or NoHeader for None
_extract_user_id(h) ==
    LET token == _extract_auth_token(h.Authorization)
    IN  IF h.uid.present THEN h.uid
        ELSE IF token.present THEN Header(<<"user_", token_hash(token.value)>>)
        ELSE IF h.wallet.present THEN Header(<<"wallet_">> \o address_prefix(h.wallet.value))
        ELSE NoHeader

\* the headers the extractor is called with
IdUids == {NoHeader, Header(<<"user_123">>)}
IdAuths == {NoHeader, Header(<<BearerPrefix, "a">>), Header(<<"a">>), Header(<<"b", "a">>)}
IdWallets ==
    {NoHeader,
     Header(<<"0", "x", "1", "2", "3", "4", "5", "6", "7", "8">>),
     Header(<<"0", "x", "1", "2", "3", "4", "5", "6", "9">>),
     Header(<<"0", "x", "1">>)}

ExtractUserId ==
    /\ Len(idCalls) < MaxIdCalls
    /\ \E uid \in IdUids, auth \in IdAuths, wallet \in IdWallets :
           LET h == IdHeaders(uid, auth, wallet)
           IN  idCalls' = Append(idCalls, [headers |-> h, result |-> _extract_user_id(h)])
    /\ UNCHANGED <<gateVars, _usage_tracking, _crawler_cache, _ip_to_crawler, crawlCall,
                   crawlLog, phoneCall, lastVerified, issued, tasks>>

NextIdentity == ExtractUserId

SpecIdentity == Init /\ [][NextIdentity]_vars

\* C12: the identity is the X-User-ID header verbatim when there is one; else
\* "user_" and the hash of the token when there is an Authorization header;
\* else "wallet_" and the first 8 characters of the wallet address when there
\* is one; else None. Two calls with the same headers give the same identity.
C12_IdentityByFirstMatch ==
    \A i \in 1..Len(idCalls) :
        LET h == idCalls[i].headers
            id == idCalls[i].result
            token == IF startswith(h.Authorization.value, BearerPrefix)
                     THEN Tail(h.Authorization.value)
                     ELSE h.Authorization.value
        IN  /\ h.uid.present => id = h.uid
            /\ (~h.uid.present /\ h.Authorization.present) =>
                   /\ id.present
                   /\ id.value = <<"user_", token_hash(token)>>
            /\ (~h.uid.present /\ ~h.Authorization.present /\ h.wallet.present) =>
                   /\ id.present
                   /\ Head(id.value) = "wallet_"
                   /\ Len(id.value) <= 1 + WalletPrefixLen
                   /\ \A k \in 2..Len(id.value) : id.value[k] = h.wallet.value[k - 1]
                   /\ Len(id.value) = 1 + WalletPrefixLen \/ Len(id.value) = 1 + Len(h.wallet.value)
            /\ (~h.uid.present /\ ~h.Authorization.present /\ ~h.wallet.present) =>
                   ~id.present
            /\ \A j \in 1..Len(idCalls) :
                   idCalls[j].headers = h => idCalls[j].result = id

\* a request with an X-User-ID, a token and a wallet, and one with a wallet
\* longer than the prefix only
C12_Witness ==
    \E i, j \in 1..Len(idCalls) :
        /\ idCalls[i].headers.uid.present
        /\ idCalls[i].headers.Authorization.present
        /\ idCalls[i].headers.wallet.present
        /\ idCalls[i].result = idCalls[i].headers.uid
        /\ ~idCalls[j].headers.uid.present
        /\ ~idCalls[j].headers.Authorization.present
        /\ idCalls[j].headers.wallet.present
        /\ Len(idCalls[j].headers.wallet.value) > WalletPrefixLen
        /\ Len(idCalls[j].result.value) = 1 + WalletPrefixLen

----------------------------------------------------------------------------
\* crawler_identification.py: strings

\* s.split(",")[0]
RECURSIVE split_first(_)
split_first(s) ==
    IF s = <<>> \/ Head(s) = "," THEN <<>>
    ELSE <<Head(s)>> \o split_first(Tail(s))

RECURSIVE lstrip(_)
lstrip(s) == IF s # <<>> /\ Head(s) = " " THEN lstrip(Tail(s)) ELSE s

RECURSIVE rstrip(_)
rstrip(s) == IF s # <<>> /\ s[Len(s)] = " " THEN rstrip(SubSeq(s, 1, Len(s) - 1)) ELSE s

\* strip that trims the left end only
strip_left_only(s) == lstrip(s)

\* s.strip()
strip(s) == rstrip(lstrip(s))

\* hashlib.md5(ip_address.encode()).hexdigest()[:8]: 32 bits of the digest,
\* which many addresses share. Here: two digests, by the parity of the
\* characters' codes.
Md5Names == <<"d0", "d1">>

CharCode(c) == CASE c = "a" -> 1 [] c = "b" -> 2 [] c = "c" -> 3 [] OTHER -> 0

RECURSIVE CharSum(_)
CharSum(s) == IF s = <<>> THEN 0 ELSE CharCode(Head(s)) + CharSum(Tail(s))

md5_prefix(ip_address) == Md5Names[(CharSum(ip_address) % Len(Md5Names)) + 1]

----------------------------------------------------------------------------
\* crawler_identification.py: CrawlerIdentifier

\* A request: headers is the dict of the headers sent (name -> string),
\* client is request.client (absent: None) with its host.
CrawlRequest(headers, client) == [headers |-> headers, client |-> client]

\* request.headers.get(name)
HeaderGet(headers, name) ==
    IF name \in DOMAIN headers THEN Header(headers[name]) ELSE NoHeader

ip_headers ==
    <<"X-Forwarded-For", "X-Real-IP", "X-Client-IP", "CF-Connecting-IP",
      "X-Forwarded", "Forwarded-For", "Forwarded">>

\* the loop of lines 51-55, from header i on: the index of the first header
\* with a non-empty value, 0 when there is none
RECURSIVE FirstHeader(_, _)
FirstHeader(headers, i) ==
    IF i > Len(ip_headers) THEN 0
    ELSE IF Truthy(HeaderGet(headers, ip_headers[i])) THEN i
    ELSE FirstHeader(headers, i + 1)

\* lines 38-61; NoHeader for None
_get_client_ip(request) ==
    LET i == FirstHeader(request.headers, 1)
    IN  IF i # 0 THEN Header(strip(split_first(request.headers[ip_headers[i]])))
        ELSE IF request.client.present THEN Header(request.client.host)
        ELSE NoHeader

\* f"crawler_{ip_hash}_{timestamp}", and the literal "unknown_crawler"
CrawlerId(ip_hash, timestamp) == [kind |-> "crawler", ip_hash |-> ip_hash, timestamp |-> timestamp]
UnknownCrawler == [kind |-> "unknown", ip_hash |-> "", timestamp |-> 0]

\* int(time.time() * 1000) at time t
Millis(t) == t * MsPerSecond

\* lines 63-85: the id, and the two dicts after the call
_create_new_crawler_id(cache, map, request, ip_address, t) ==
    LET timestamp == Millis(t)
        crawler_id == CrawlerId(md5_prefix(ip_address), timestamp)
        user_agent == HeaderGet(request.headers, "User-Agent")
        crawler_info == [id |-> crawler_id,
                         ip_address |-> ip_address,
                         user_agent |-> IF user_agent.present THEN user_agent.value ELSE <<>>,
                         first_seen |-> timestamp,
                         last_seen |-> timestamp,
                         request_count |-> 1,
                         headers |-> request.headers]
    IN  [id |-> crawler_id,
         cache |-> (crawler_id :> crawler_info) @@ cache,
         map |-> (ip_address :> crawler_id) @@ map]

\* lines 87-91: the cache after the call
_update_crawler_info(cache, crawler_id, t) ==
    IF crawler_id \in DOMAIN cache
    THEN [cache EXCEPT ![crawler_id].last_seen = Millis(t),
                       ![crawler_id].request_count = @ + 1]
    ELSE cache

\* lines 15-36: the id returned, the address used, and the two dicts after
identify_crawler(cache, map, request, t) ==
    LET ip_address == _get_client_ip(request)
    IN  IF ~Truthy(ip_address)
        THEN [id |-> UnknownCrawler, ip |-> ip_address, cache |-> cache, map |-> map]
        ELSE IF ip_address.value \in DOMAIN map
        THEN [id |-> map[ip_address.value], ip |-> ip_address,
              cache |-> _update_crawler_info(cache, map[ip_address.value], t), map |-> map]
        ELSE LET made == _create_new_crawler_id(cache, map, request, ip_address.value, t)
             IN  [id |-> made.id, ip |-> ip_address, cache |-> made.cache, map |-> made.map]

\* cleanup_old_crawlers that also removes a record last seen at the cutoff
cleanup_at_cutoff(cache, map, max_age_hours, t) ==
    LET cutoff_time == Millis(t) - (max_age_hours * SecondsPerHour * MsPerSecond)
        crawlers_to_remove == {id \in DOMAIN cache : cache[id].last_seen <= cutoff_time}
        gone == {cache[id].ip_address : id \in crawlers_to_remove}
    IN  [removed_count |-> Cardinality(crawlers_to_remove),
         cache |-> [id \in DOMAIN cache \ crawlers_to_remove |-> cache[id]],
         map |-> [ip \in DOMAIN map \ gone |-> map[ip]]]

\* lines 101-120: the count returned and the two dicts after
cleanup_old_crawlers(cache, map, max_age_hours, t) ==
    LET cutoff_time == Millis(t) - (max_age_hours * SecondsPerHour * MsPerSecond)
        crawlers_to_remove == {id \in DOMAIN cache : cache[id].last_seen < cutoff_time}
        gone == {cache[id].ip_address : id \in crawlers_to_remove}
    IN  [removed_count |-> Cardinality(crawlers_to_remove),
         cache |-> [id \in DOMAIN cache \ crawlers_to_remove |-> cache[id]],
         map |-> [ip \in DOMAIN map \ gone |-> map[ip]]]

----------------------------------------------------------------------------
\* The crawler identifier in use

\* everything but the clock and the crawler identifier's state
crawlFrame == <<phone_verification_store, verified_phones, req, res, trace,
                _rate_limit_tracker, admitted, rateCall, _usage_tracking, idCalls,
                phoneCall, lastVerified, issued, tasks>>

NoClient == [present |-> FALSE, host |-> <<>>]
Client(host) == [present |-> TRUE, host |-> host]

\* the ids handed out to an address so far
IdsOf(ip) == IF ip \in DOMAIN crawlLog.ids THEN crawlLog.ids[ip] ELSE {}

\* crawlLog.made after an identify_crawler call that resolved to address ip and
\* returned id: a record that did not exist is entered with its creating
\* request; every existing record created from ip has one more call.
MadeAfter(request, ip, id, created, t) ==
    LET user_agent == HeaderGet(request.headers, "User-Agent")
        counted == [c \in DOMAIN crawlLog.made |->
                       IF crawlLog.made[c].ip = ip /\ c \in DOMAIN _crawler_cache
                       THEN [crawlLog.made[c] EXCEPT !.calls = @ + 1]
                       ELSE crawlLog.made[c]]
    IN  IF created /\ id \notin DOMAIN _crawler_cache
        THEN (id :> [ip |-> ip,
                     user_agent |-> IF user_agent.present THEN user_agent.value ELSE <<>>,
                     first_seen |-> Millis(t),
                     calls |-> 1]) @@ counted
        ELSE counted

\* One identify_crawler call, served to the end.
Identify(request) ==
    LET r == identify_crawler(_crawler_cache, _ip_to_crawler, request, now)
        known == Truthy(r.ip)
        created == known /\ r.ip.value \notin DOMAIN _ip_to_crawler
    IN  /\ _crawler_cache' = r.cache
        /\ _ip_to_crawler' = r.map
        /\ crawlCall' = [op |-> "identify", request |-> request, ip |-> r.ip, result |-> r.id,
                         at |-> now, cache_before |-> _crawler_cache,
                         map_before |-> _ip_to_crawler]
        /\ crawlLog' =
               IF ~known THEN [crawlLog EXCEPT !.n = @ + 1]
               ELSE [ids |-> (r.ip.value :> (IdsOf(r.ip.value) \cup {r.id})) @@ crawlLog.ids,
                     made |-> MadeAfter(request, r.ip.value, r.id, created, now),
                     n |-> crawlLog.n + 1]
        /\ UNCHANGED <<now, crawlFrame>>

\* One cleanup_old_crawlers call, served to the end.
Cleanup(max_age_hours) ==
    LET r == cleanup_old_crawlers(_crawler_cache, _ip_to_crawler, max_age_hours, now)
    IN  /\ _crawler_cache' = r.cache
        /\ _ip_to_crawler' = r.map
        /\ crawlCall' = [op |-> "cleanup", max_age_hours |-> max_age_hours,
                         result |-> r.removed_count, at |-> now,
                         cache_before |-> _crawler_cache, map_before |-> _ip_to_crawler]

\* requests that reach the server directly, from three addresses
CrawlRequests ==
    {CrawlRequest(("User-Agent" :> ua), Client(ip)) :
         ua \in {<<"Mozilla">>, <<"PerplexityBot">>}, ip \in {<<"a">>, <<"b">>, <<"c">>}}

CrawlIdentify ==
    /\ crawlLog.n < MaxCrawlCalls
    /\ \E request \in CrawlRequests : Identify(request)

CrawlCleanup ==
    /\ \E max_age_hours \in {0, 1} : Cleanup(max_age_hours)
    /\ UNCHANGED <<now, crawlLog, crawlFrame>>

CrawlTick ==
    /\ \E d \in {SecondsPerHour, SecondsPerHour + 1} : Tick(d, MaxCrawlTime)
    /\ UNCHANGED <<_crawler_cache, _ip_to_crawler, crawlCall, crawlLog, crawlFrame>>

NextCrawler == CrawlIdentify \/ CrawlCleanup \/ CrawlTick

SpecCrawler == Init /\ [][NextCrawler]_vars

IdentifyMade == crawlCall.op = "identify"

\* C13: all identify_crawler calls that resolve to one address return one id.
C13_SameIpSameId ==
    \A ip \in DOMAIN crawlLog.ids : Cardinality(crawlLog.ids[ip]) <= 1

\* C14: no id is handed out to two addresses, no two addresses are mapped to
\* one id, and the record an address is mapped to is that address's own.
C14_DistinctIpsDistinctIds ==
    /\ \A ip1, ip2 \in DOMAIN crawlLog.ids :
           ip1 # ip2 => crawlLog.ids[ip1] \cap crawlLog.ids[ip2] = {}
    /\ \A ip1, ip2 \in DOMAIN _ip_to_crawler :
           ip1 # ip2 => _ip_to_crawler[ip1] # _ip_to_crawler[ip2]
    /\ \A ip \in DOMAIN _ip_to_crawler :
           _ip_to_crawler[ip] \in DOMAIN _crawler_cache
               => _crawler_cache[_ip_to_crawler[ip]].ip_address = ip

\* C15: the request_count of a record is the number of identify_crawler calls
\* from the address of its creating request since that request, and the
\* record keeps the address, user agent and first_seen of its creating request.
C15_RequestCountCountsCalls ==
    \A id \in DOMAIN _crawler_cache :
        /\ id \in DOMAIN crawlLog.made
        /\ _crawler_cache[id].request_count = crawlLog.made[id].calls
        /\ _crawler_cache[id].ip_address = crawlLog.made[id].ip
        /\ _crawler_cache[id].user_agent = crawlLog.made[id].user_agent
        /\ _crawler_cache[id].first_seen = crawlLog.made[id].first_seen

----------------------------------------------------------------------------
\* Requests through proxies: what address identify_crawler takes from them

\* header values: an address, an empty value, a list with blanks around its
\* first element, a blank, a list whose first element is empty
IpValues ==
    {<<"a">>, <<" ", "a", " ", ",", "b">>, <<" ">>, <<",", "a">>}

\* the proxy headers of a request: none, one of the seven, or two of them of
\* which the first is empty or an address
IpHeaderChoices ==
    {<<>>}
    \cup {(ip_headers[i] :> v) : i \in 1..Len(ip_headers), v \in IpValues}
    \cup {(ip_headers[i] :> v) @@ (ip_headers[j] :> <<"b">>) :
              i \in 1..Len(ip_headers), j \in 1..Len(ip_headers), v \in {<<"a">>, <<>>}}

IpRequests ==
    {CrawlRequest(h, c) : h \in IpHeaderChoices, c \in {NoClient, Client(<<"c">>)}}

IpIdentify ==
    /\ crawlLog.n < MaxIpCalls
    /\ \E request \in IpRequests : Identify(request)

NextClientIp == IpIdentify

SpecClientIp == Init /\ [][NextClientIp]_vars

\* the order in which the proxy headers are to be looked at
ProxyHeaderOrder ==
    <<"X-Forwarded-For", "X-Real-IP", "X-Client-IP", "CF-Connecting-IP",
      "X-Forwarded", "Forwarded-For", "Forwarded">>

\* header k of the order is sent with a non-empty value, and none before it is
FirstNonEmpty(headers, k) ==
    /\ ProxyHeaderOrder[k] \in DOMAIN headers
    /\ headers[ProxyHeaderOrder[k]] # <<>>
    /\ \A j \in 1..(k - 1) :
           ProxyHeaderOrder[j] \in DOMAIN headers => headers[ProxyHeaderOrder[j]] = <<>>

\* e is the first comma-separated element of v without the blanks around it
FirstElementTrimmed(e, v) ==
    /\ \A i \in 1..Len(e) : e[i] # ","
    /\ e # <<>> => (e[1] # " " /\ e[Len(e)] # " ")
    /\ \E lead \in 0..Len(v), trail \in 0..Len(v) :
           LET n == lead + Len(e) + trail
           IN  /\ n <= Len(v)
               /\ \A i \in 1..lead : v[i] = " "
               /\ \A i \in 1..Len(e) : v[lead + i] = e[i]
               /\ \A i \in 1..trail : v[lead + Len(e) + i] = " "
               /\ n = Len(v) \/ v[n + 1] = ","

\* C16: the address identify_crawler uses is the first comma-separated,
\* trimmed element of the first non-empty proxy header in the order of
\* ProxyHeaderOrder; without such a header it is the client host; without
\* that either, the call returns "unknown_crawler" and leaves the crawler
\* records and the IP mapping as they were. A call that has a non-empty
\* address returns the id that address is mapped to.
C16_ClientIpFromFirstHeader ==
    IdentifyMade =>
        LET request == crawlCall.request
            none == \A k \in 1..Len(ProxyHeaderOrder) : ~FirstNonEmpty(request.headers, k)
        IN  /\ \A k \in 1..Len(ProxyHeaderOrder) :
                   FirstNonEmpty(request.headers, k) =>
                       /\ crawlCall.ip.present
                       /\ FirstElementTrimmed(crawlCall.ip.value,
                                              request.headers[ProxyHeaderOrder[k]])
            /\ (none /\ request.client.present) =>
                   crawlCall.ip = Header(request.client.host)
            /\ (none /\ ~request.client.present) =>
                   /\ crawlCall.result = UnknownCrawler
                   /\ _crawler_cache = crawlCall.cache_before
                   /\ _ip_to_crawler = crawlCall.map_before
            /\ Truthy(crawlCall.ip) =>
                   /\ crawlCall.ip.value \in DOMAIN _ip_to_crawler
                   /\ _ip_to_crawler[crawlCall.ip.value] = crawlCall.result

\* a request whose first proxy header is empty and whose next one is taken,
\* with a client host that is not used
C16_WitnessSecondHeader ==
    /\ IdentifyMade
    /\ \E k \in 2..Len(ProxyHeaderOrder) :
           /\ FirstNonEmpty(crawlCall.request.headers, k)
           /\ \E j \in 1..(k - 1) : ProxyHeaderOrder[j] \in DOMAIN crawlCall.request.headers
    /\ crawlCall.request.client.present
    /\ crawlCall.ip.present
    /\ crawlCall.ip.value # crawlCall.request.client.host
    /\ crawlCall.result # UnknownCrawler

----------------------------------------------------------------------------
\* The phone verification functions called directly

\* everything but the clock and the phone verification state
phoneFrame == <<req, res, trace, _rate_limit_tracker, admitted, rateCall, _usage_tracking,
                idCalls, _crawler_cache, _ip_to_crawler, crawlCall, crawlLog, tasks>>

PhoneCodes == {"c1", "c2"}

\* what a call saw and returned
PhoneCall(op, phone_number, code, result) ==
    [op |-> op, phone |-> phone_number, code |-> code, result |-> result, at |-> now,
     store_before |-> phone_verification_store, verified_before |-> verified_phones]

PhoneRequest ==
    /\ \E p \in Phones, c \in PhoneCodes :
           /\ request_phone_verification(p, c)
           /\ phoneCall' = PhoneCall("request", p, c, TRUE)
           /\ issued' = (p :> [code |-> c, at |-> now,
                               earlier |-> IF p \in DOMAIN issued
                                           THEN issued[p].earlier \cup {issued[p].code}
                                           ELSE {}]) @@ issued
    /\ UNCHANGED <<lastVerified, phoneFrame>>

PhoneVerify ==
    /\ \E p \in Phones, c \in PhoneCodes :
           LET ok == code_accepted(phone_verification_store, p, c, now)
           IN  /\ verify_phone_code(p, c)
               /\ phoneCall' = PhoneCall("verify", p, c, ok)
               /\ lastVerified' = IF ok THEN (p :> now) @@ lastVerified ELSE lastVerified
    /\ UNCHANGED <<issued, phoneFrame>>

PhoneCheck ==
    /\ \E p \in Phones \cup {NoneVal} :
           /\ check_phone_verified(p)
           /\ phoneCall' = PhoneCall("check", p, NoneVal, is_verified(p, verified_phones, now))
    /\ UNCHANGED <<lastVerified, issued, phoneFrame>>

PhoneTick ==
    /\ \E d \in {PhoneTtl, PhoneTtl + 1} : Tick(d, MaxPhoneTime)
    /\ UNCHANGED <<phone_verification_store, verified_phones, phoneCall, lastVerified, issued,
                   phoneFrame>>

NextPhone == PhoneRequest \/ PhoneVerify \/ PhoneCheck \/ PhoneTick

SpecPhone == Init /\ [][NextPhone]_vars

\* C17: a check returns True iff the request names a phone whose latest
\* successful verify_phone_code was at most 10 seconds before the check.
C17_VerifiedWithinTtl ==
    phoneCall.op = "check" =>
        (phoneCall.result <=>
            /\ phoneCall.phone # NoneVal
            /\ phoneCall.phone \in DOMAIN lastVerified
            /\ phoneCall.at - lastVerified[phoneCall.phone] <= PhoneTtl)

\* a check exactly 10 seconds after the verification, after an earlier check
\* has purged another phone's expired verification
C17_Witness ==
    /\ phoneCall.op = "check"
    /\ phoneCall.result
    /\ phoneCall.at - lastVerified[phoneCall.phone] = PhoneTtl
    /\ \E p \in DOMAIN lastVerified : p \notin DOMAIN phoneCall.verified_before

\* C18: verify_phone_code returns True iff a code was issued for the phone,
\* the code given equals it and at most 10 seconds have passed since it was
\* issued; it then records the phone as verified now, and otherwise records
\* nothing.
C18_CodeAcceptedWithinTtl ==
    phoneCall.op = "verify" =>
        LET stored == phoneCall.phone \in DOMAIN phoneCall.store_before
            entry == phoneCall.store_before[phoneCall.phone]
        IN  /\ phoneCall.result <=>
                   /\ stored
                   /\ phoneCall.code = entry.code
                   /\ phoneCall.at - entry.timestamp <= PhoneTtl
            /\ phoneCall.result =>
                   verified_phones = (phoneCall.phone :> phoneCall.at) @@ phoneCall.verified_before
            /\ ~phoneCall.result => verified_phones = phoneCall.verified_before

\* a code accepted exactly 10 seconds after it was issued
C18_Witness ==
    /\ phoneCall.op = "verify"
    /\ phoneCall.result
    /\ phoneCall.at - phoneCall.store_before[phoneCall.phone].timestamp = PhoneTtl
    /\ verified_phones[phoneCall.phone] = phoneCall.at

----------------------------------------------------------------------------
\* phone_verification.py called from several threads: nothing in the module
\* keeps one call from running between the steps of another

\* everything but the clock, the two phone dicts and the threads
concFrame == <<req, res, trace, _rate_limit_tracker, admitted, rateCall, _usage_tracking,
               idCalls, _crawler_cache, _ip_to_crawler, crawlCall, crawlLog, phoneCall,
               lastVerified, issued>>

\* lines 31-35: the call reads the time and the phone's entry, and starts to
\* iterate over verified_phones.items() (the iterator remembers the size)
CheckBegin(k) ==
    /\ tasks[k].pc = "idle"
    /\ \E p \in Phones :
           tasks' = [tasks EXCEPT ![k] =
                        [pc |-> "iterate", op |-> "check", phone |-> p, code |-> NoneVal,
                         t |-> now, is_verified |-> is_verified(p, verified_phones, now),
                         used |-> Cardinality(DOMAIN verified_phones), expired |-> {},
                         exc |-> "none"]]
    /\ UNCHANGED <<now, phone_verification_store, verified_phones, concFrame>>

\* line 35: the iteration ends. A dict whose size changed since the iterator
\* was made raises RuntimeError.
CheckIterate(k) ==
    /\ tasks[k].pc = "iterate"
    /\ tasks' = [tasks EXCEPT ![k] =
                     IF Cardinality(DOMAIN verified_phones) # tasks[k].used
                     THEN [tasks[k] EXCEPT !.pc = "raised", !.exc = "RuntimeError"]
                     ELSE [tasks[k] EXCEPT
                              !.pc = "delete",
                              !.expired = {num \in DOMAIN verified_phones :
                                              (tasks[k].t - verified_phones[num]) > PhoneTtl}]]
    /\ UNCHANGED <<now, phone_verification_store, verified_phones, concFrame>>

\* lines 37-38: one del of the loop. A key that is no longer there raises
\* KeyError.
CheckDelete(k) ==
    /\ tasks[k].pc = "delete"
    /\ tasks[k].expired # {}
    /\ \E num \in tasks[k].expired :
           IF num \in DOMAIN verified_phones
           THEN /\ verified_phones' =
                       [n \in DOMAIN verified_phones \ {num} |-> verified_phones[n]]
                /\ tasks' = [tasks EXCEPT ![k].expired = @ \ {num}]
           ELSE /\ verified_phones' = verified_phones
                /\ tasks' = [tasks EXCEPT ![k].pc = "raised", ![k].exc = "KeyError"]
    /\ UNCHANGED <<now, phone_verification_store, concFrame>>

\* line 40: return is_verified
CheckReturn(k) ==
    /\ tasks[k].pc = "delete"
    /\ tasks[k].expired = {}
    /\ tasks' = [tasks EXCEPT ![k].pc = "returned"]
    /\ UNCHANGED <<now, phone_verification_store, verified_phones, concFrame>>

\* verify_phone_code on a thread: its one write of line 25 is a single step
VerifyCall(k) ==
    /\ tasks[k].pc = "idle"
    /\ \E p \in Phones, c \in Codes :
           /\ verify_phone_code(p, c)
           /\ tasks' = [tasks EXCEPT ![k] =
                            [IdleTask EXCEPT !.pc = "returned", !.op = "verify", !.phone = p,
                                             !.code = c, !.t = now]]
    /\ UNCHANGED concFrame

\* the thread is given its next call; one that raised has lost its request
TaskDone(k) ==
    /\ tasks[k].pc = "returned"
    /\ tasks' = [tasks EXCEPT ![k] = IdleTask]
    /\ UNCHANGED <<now, phone_verification_store, verified_phones, concFrame>>

ConcRequestCode ==
    /\ \E p \in Phones, c \in Codes : request_phone_verification(p, c)
    /\ UNCHANGED <<tasks, concFrame>>

ConcTick ==
    /\ \E d \in {PhoneTtl, PhoneTtl + 1} : Tick(d, MaxConcTime)
    /\ UNCHANGED <<phone_verification_store, verified_phones, tasks, concFrame>>

NextConc ==
    \/ \E k \in Tasks : CheckBegin(k)
    \/ \E k \in Tasks : CheckIterate(k)
    \/ \E k \in Tasks : CheckDelete(k)
    \/ \E k \in Tasks : CheckReturn(k)
    \/ \E k \in Tasks : VerifyCall(k)
    \/ \E k \in Tasks : TaskDone(k)
    \/ ConcRequestCode
    \/ ConcTick

SpecConc == Init /\ [][NextConc]_vars

\* C19: whatever the interleaving, no call raises an exception.
C19_NoInterleavingRaises ==
    \A k \in Tasks : tasks[k].pc # "raised"

----------------------------------------------------------------------------
\* The responses of endpoints of several prices and currencies

Currencies == {"TRUSD", "USDC"}

ResponseRequest ==
    /\ Idle
    /\ \E a \in AuthChoices, ph \in Phones \cup {NoneVal}, price \in Prices,
          currency \in Currencies, phone_required \in BOOLEAN :
           Request(Headers(a[1], NoneVal, ph, NoneVal),
                   Config(price, currency, phone_required, 0, CacheTtl),
                   World(a[2], NoChain))
    /\ UNCHANGED <<trace, _rate_limit_tracker, admitted, rateCall, ext>>

NextResponse ==
    ResponseRequest \/ GateReturn \/ GateRequestPhone \/ GateVerifyPhone \/ GateTick

SpecResponse == Init /\ [][NextResponse]_vars

\* C20: the payment-required rejection is a 402 with error "Payment required"
\* that carries the endpoint's price, currency and phone_required flag and the
\* payment endpoint; the phone-verification rejection carries another error
\* value; an allowed request is answered with the handler's result.
C20_ResponsesTellOutcomesApart ==
    Served =>
        /\ res.outcome = "PAYMENT_REQUIRED" =>
               /\ res.response.status_code = 402
               /\ res.response.error = "Payment required"
               /\ res.response.price = req.cfg.price
               /\ res.response.currency = req.cfg.currency
               /\ res.response.phone_required = req.cfg.phone_required
               /\ res.response.payment_endpoint = "https://pay.modelex.ai/pay"
               /\ ~res.handler_invoked
        /\ res.outcome = "PHONE_REQUIRED" =>
               /\ res.response.status_code = 402
               /\ res.response.error # "Payment required"
               /\ ~res.handler_invoked
        /\ res.outcome = "ALLOWED" =>
               /\ res.handler_invoked
               /\ res.response = HandlerResult
               /\ "error" \notin DOMAIN res.response

\* a payment-required rejection of an endpoint of price 2 in a currency other
\* than the default, with phone verification required
C20_Witness ==
    /\ Served
    /\ res.outcome = "PAYMENT_REQUIRED"
    /\ req.cfg.price = 2
    /\ req.cfg.currency = "USDC"
    /\ req.cfg.phone_required
    /\ res.response.currency = "USDC"

----------------------------------------------------------------------------
\* Authorization headers of every shape, and the token verify_jwt is given

\* no header, an empty one, the bare prefix, a bare token, a prefixed token,
\* and values in which "Bearer " stands a second time or not at the front
TokenAuths ==
    {NoHeader, Header(<<>>), Header(<<BearerPrefix>>), Header(<<"a">>),
     Header(<<BearerPrefix, "a">>),
     Header(<<BearerPrefix, "a", BearerPrefix, "b">>),
     Header(<<BearerPrefix, BearerPrefix, "a">>),
     Header(<<"a", BearerPrefix, "b">>)}

TokenRequest ==
    /\ Idle
    /\ \E auth \in TokenAuths,
          d \in {DecodeError, Payload("num", 1, NoneVal), Payload("num", 2, NoneVal)},
          wallet \in Wallets \cup {NoneVal}, price \in Prices, phone_required \in BOOLEAN :
           Request(Headers(auth, wallet, NoneVal, NoneVal),
                   Config(price, "TRUSD", phone_required, 0, CacheTtl),
                   World(d, NoChain))
    /\ UNCHANGED <<trace, _rate_limit_tracker, admitted, rateCall, ext>>

NextToken == TokenRequest \/ GateReturn

SpecToken == Init /\ [][NextToken]_vars

\* C21: the token verify_jwt is called with is the Authorization value
\* without its leading "Bearer ", or the value itself when it does not start
\* with "Bearer "; with no or an empty Authorization header verify_jwt is not
\* called.
C21_OnlyLeadingPrefixRemoved ==
    Served =>
        LET auth == req.headers.Authorization
            expected == IF auth.present /\ auth.value # <<>> /\ Head(auth.value) = BearerPrefix
                        THEN Tail(auth.value)
                        ELSE auth.value
        IN  /\ res.jwt_called => res.jwt_token.value = expected
            /\ ~Truthy(auth) => ~res.jwt_called

----------------------------------------------------------------------------
\* What the crawler claims speak of, read off the recorded cleanup

CleanupMade == crawlCall.op = "cleanup"

\* the records of the cache before the call that were last seen before
\* now - max_age_hours, in milliseconds
TooOld ==
    {id \in DOMAIN crawlCall.cache_before :
        crawlCall.cache_before[id].last_seen
            < crawlCall.at * 1000 - crawlCall.max_age_hours * 3600 * 1000}

\* C22: a cleanup removes exactly the records last seen before now minus
\* max_age_hours, with the IP mapping of each; it returns their number and
\* leaves every other record and IP mapping as it was; the same cleanup
\* called again at once removes nothing and returns 0.
C22_CleanupRemovesExactlyOld ==
    CleanupMade =>
        LET gone == {crawlCall.cache_before[id].ip_address : id \in TooOld}
            again == cleanup_old_crawlers(_crawler_cache, _ip_to_crawler,
                                          crawlCall.max_age_hours, crawlCall.at)
        IN  /\ DOMAIN _crawler_cache = DOMAIN crawlCall.cache_before \ TooOld
            /\ \A id \in DOMAIN _crawler_cache : _crawler_cache[id] = crawlCall.cache_before[id]
            /\ crawlCall.result = Cardinality(TooOld)
            /\ DOMAIN _ip_to_crawler = DOMAIN crawlCall.map_before \ gone
            /\ \A ip \in DOMAIN _ip_to_crawler : _ip_to_crawler[ip] = crawlCall.map_before[ip]
            /\ again.removed_count = 0
            /\ again.cache = _crawler_cache
            /\ again.map = _ip_to_crawler

\* a cleanup that removed a record and its mapping and kept a younger one
C22_Witness ==
    /\ CleanupMade
    /\ crawlCall.result >= 1
    /\ _crawler_cache # <<>>
    /\ DOMAIN _ip_to_crawler # DOMAIN crawlCall.map_before
    /\ DOMAIN _ip_to_crawler # {}

----------------------------------------------------------------------------
\* What the phone claims speak of, read off the recorded call

CheckMade == phoneCall.op = "check"

\* C23: after a check, verified_phones holds no verification older than 10
\* seconds and holds every verification of the last 10 seconds, of whatever
\* phone, as it was; the value returned is the one the map before the purge
\* gives.
C23_CheckPurgesExpired ==
    CheckMade =>
        LET before == phoneCall.verified_before
        IN  /\ \A p \in DOMAIN verified_phones : phoneCall.at - verified_phones[p] <= 10
            /\ DOMAIN verified_phones \subseteq DOMAIN before
            /\ \A p \in DOMAIN before :
                   phoneCall.at - before[p] <= 10
                       => (p \in DOMAIN verified_phones /\ verified_phones[p] = before[p])
            /\ phoneCall.result <=>
                   /\ phoneCall.phone \in DOMAIN before
                   /\ phoneCall.at - before[phoneCall.phone] <= 10

\* a check that purged one phone's expired verification and kept another's,
\* exactly 10 seconds old
C23_Witness ==
    /\ CheckMade
    /\ DOMAIN verified_phones # DOMAIN phoneCall.verified_before
    /\ \E p \in DOMAIN verified_phones : phoneCall.at - verified_phones[p] = 10

\* C24: every address of the IP map is mapped to a record of the cache that
\* carries that address, every record of the cache is what its own address is
\* mapped to, and every record has request_count >= 1 and
\* first_seen <= last_seen.
C24_MapAndCacheCorrespond ==
    /\ \A ip \in DOMAIN _ip_to_crawler :
           /\ _ip_to_crawler[ip] \in DOMAIN _crawler_cache
           /\ _crawler_cache[_ip_to_crawler[ip]].ip_address = ip
    /\ \A id \in DOMAIN _crawler_cache :
           /\ _crawler_cache[id].ip_address \in DOMAIN _ip_to_crawler
           /\ _ip_to_crawler[_crawler_cache[id].ip_address] = id
           /\ _crawler_cache[id].request_count >= 1
           /\ _crawler_cache[id].first_seen <= _crawler_cache[id].last_seen

----------------------------------------------------------------------------
\* identify_crawler called from several threads: nothing in CrawlerIdentifier
\* keeps one call from running between the steps of another

\* everything but the crawler identifier's dicts, the threads and the count of
\* calls
crawlConcFrame == <<now, phone_verification_store, verified_phones, req, res, trace,
                    _rate_limit_tracker, admitted, rateCall, _usage_tracking, idCalls,
                    crawlCall, phoneCall, lastVerified, issued>>

\* a thread inside identify_crawler
IdentifyTask(pc, request, ip, id, exc) ==
    [pc |-> pc, op |-> "identify", request |-> request, ip |-> ip, id |-> id, exc |-> exc]

\* lines 23-29: the address is resolved and looked for in _ip_to_crawler
IdBegin(k) ==
    /\ tasks[k].pc = "idle"
    /\ crawlLog.n < MaxConcCalls
    /\ \E host \in {<<"a">>, <<"b">>} :
           LET request == CrawlRequest(("User-Agent" :> <<"Mozilla">>), Client(host))
               ip == _get_client_ip(request)
           IN  tasks' = [tasks EXCEPT ![k] =
                            IF ~Truthy(ip)
                            THEN IdentifyTask("returned", request, <<>>, UnknownCrawler, "none")
                            ELSE IF ip.value \in DOMAIN _ip_to_crawler
                            THEN IdentifyTask("lookup", request, ip.value, UnknownCrawler, "none")
                            ELSE IdentifyTask("create", request, ip.value, UnknownCrawler, "none")]
    /\ crawlLog' = [crawlLog EXCEPT !.n = @ + 1]
    /\ UNCHANGED <<_crawler_cache, _ip_to_crawler, crawlConcFrame>>

\* line 30: a mapping that a cleanup has deleted meanwhile raises KeyError
IdLookup(k) ==
    /\ tasks[k].pc = "lookup"
    /\ tasks' = [tasks EXCEPT ![k] =
                     IF tasks[k].ip \in DOMAIN _ip_to_crawler
                     THEN [tasks[k] EXCEPT !.pc = "update", !.id = _ip_to_crawler[tasks[k].ip]]
                     ELSE [tasks[k] EXCEPT !.pc = "raised", !.exc = "KeyError"]]
    /\ UNCHANGED <<_crawler_cache, _ip_to_crawler, crawlLog, crawlConcFrame>>

\* lines 31-32 (and 89-91)
IdUpdate(k) ==
    /\ tasks[k].pc = "update"
    /\ _crawler_cache' = _update_crawler_info(_crawler_cache, tasks[k].id, now)
    /\ tasks' = [tasks EXCEPT ![k].pc = "returned"]
    /\ UNCHANGED <<_ip_to_crawler, crawlLog, crawlConcFrame>>

\* lines 66-82: the id is made and the record stored
IdCreate(k) ==
    /\ tasks[k].pc = "create"
    /\ LET made == _create_new_crawler_id(_crawler_cache, _ip_to_crawler,
                                          tasks[k].request, tasks[k].ip, now)
       IN  /\ _crawler_cache' = made.cache
           /\ tasks' = [tasks EXCEPT ![k].pc = "map", ![k].id = made.id]
    /\ UNCHANGED <<_ip_to_crawler, crawlLog, crawlConcFrame>>

\* line 83 (and 85, 36)
IdMap(k) ==
    /\ tasks[k].pc = "map"
    /\ _ip_to_crawler' = (tasks[k].ip :> tasks[k].id) @@ _ip_to_crawler
    /\ tasks' = [tasks EXCEPT ![k].pc = "returned"]
    /\ UNCHANGED <<_crawler_cache, crawlLog, crawlConcFrame>>

\* the thread is given its next call
IdDone(k) ==
    /\ tasks[k].pc = "returned"
    /\ tasks' = [tasks EXCEPT ![k] = IdleTask]
    /\ UNCHANGED <<_crawler_cache, _ip_to_crawler, crawlLog, crawlConcFrame>>

NextCrawlConc ==
    \/ \E k \in Tasks : IdBegin(k)
    \/ \E k \in Tasks : IdLookup(k)
    \/ \E k \in Tasks : IdUpdate(k)
    \/ \E k \in Tasks : IdCreate(k)
    \/ \E k \in Tasks : IdMap(k)
    \/ \E k \in Tasks : IdDone(k)
    \/ CrawlCleanup
    \/ CrawlTick

SpecCrawlConc == Init /\ [][NextCrawlConc]_vars

\* no thread is inside a call
Quiet == \A k \in Tasks : tasks[k].pc \in {"idle", "returned"}

\* C25: whatever the interleaving, no two records of the cache carry the same
\* address; once no call is running, every record is what its address is
\* mapped to; and a cleanup deletes no mapping of an address whose record it
\* has left in the cache.
C25_OneRecordPerIp ==
    /\ \A id1, id2 \in DOMAIN _crawler_cache :
           _crawler_cache[id1].ip_address = _crawler_cache[id2].ip_address => id1 = id2
    /\ Quiet =>
           \A id \in DOMAIN _crawler_cache :
               /\ _crawler_cache[id].ip_address \in DOMAIN _ip_to_crawler
               /\ _ip_to_crawler[_crawler_cache[id].ip_address] = id
    /\ CleanupMade =>
           LET r == cleanup_old_crawlers(crawlCall.cache_before, crawlCall.map_before,
                                         crawlCall.max_age_hours, crawlCall.at)
           IN  \A ip \in DOMAIN crawlCall.map_before :
                   crawlCall.map_before[ip] \in DOMAIN r.cache => ip \in DOMAIN r.map

\* each part of C25 on its own
C25_AtMostOneRecord ==
    \A id1, id2 \in DOMAIN _crawler_cache :
        _crawler_cache[id1].ip_address = _crawler_cache[id2].ip_address => id1 = id2

C25_CleanupKeepsLiveMapping ==
    CleanupMade =>
        LET r == cleanup_old_crawlers(crawlCall.cache_before, crawlCall.map_before,
                                      crawlCall.max_age_hours, crawlCall.at)
        IN  \A ip \in DOMAIN crawlCall.map_before :
                crawlCall.map_before[ip] \in DOMAIN r.cache => ip \in DOMAIN r.map

----------------------------------------------------------------------------
\* Issued codes

\* C26: verify_phone_code accepts a code iff it is the one issued last for
\* that phone and at most 10 seconds have passed since that last issue; a code
\* issued earlier for the phone and replaced by a different one is rejected,
\* and what was issued for other phones plays no part.
C26_OnlyLatestCodeVerifies ==
    phoneCall.op = "verify" =>
        (phoneCall.result <=>
            /\ phoneCall.phone \in DOMAIN issued
            /\ phoneCall.code = issued[phoneCall.phone].code
            /\ phoneCall.at - issued[phoneCall.phone].at <= PhoneTtl)

\* a replaced code is rejected while the code that replaced it is still
\* valid, after a code was issued for the other phone too
C26_Witness ==
    /\ phoneCall.op = "verify"
    /\ ~phoneCall.result
    /\ phoneCall.phone \in DOMAIN issued
    /\ phoneCall.code \in issued[phoneCall.phone].earlier
    /\ phoneCall.code # issued[phoneCall.phone].code
    /\ phoneCall.at - issued[phoneCall.phone].at <= PhoneTtl
    /\ \E q \in DOMAIN issued : q # phoneCall.phone

\* C27: verify_phone_code leaves phone_verification_store as it was, whether
\* it returns True or False, and a call that returns False leaves
\* verified_phones as it was.
C27_VerifyKeepsStore ==
    phoneCall.op = "verify" =>
        /\ phone_verification_store = phoneCall.store_before
        /\ ~phoneCall.result => verified_phones = phoneCall.verified_before

\* a code accepted again: the phone was already verified with it, later than
\* the code was issued
C27_Witness ==
    /\ phoneCall.op = "verify"
    /\ phoneCall.result
    /\ phoneCall.phone \in DOMAIN phoneCall.verified_before
    /\ phoneCall.verified_before[phoneCall.phone] >=
           phoneCall.store_before[phoneCall.phone].timestamp
    /\ phoneCall.at > phoneCall.verified_before[phoneCall.phone]
    /\ phone_verification_store = phoneCall.store_before

====
